---- MODULE Spec2Model ----
(***************************************************************************)
(* SPIMI indexer of src/src/indexer.py: block building, temporary blocks,  *)
(* the watermark multi-way merge, the master index and the doc keys.       *)
(*                                                                         *)
(* Terms are represented by their rank in lexicographic order, so that     *)
(* the integer order on Terms is Python's string order on the terms.       *)
(* Decimal text of a document id or of a position is represented by the    *)
(* number it denotes; a TSV row is a term followed by a sequence of        *)
(* fields, a field being the sequence of the numbers its text holds.       *)
(* In positional mode parse_index_file_row keeps the document id as the    *)
(* text it read; that text is what is written back, so the id is the       *)
(* number on both sides.                                                   *)
(*                                                                         *)
(* Spec: one Indexer is built on a tokenizer without stopwords, size        *)
(* filter or stemming, and index_data_source is called on the same data    *)
(* source up to MaxRuns times.  A Python exception ends the behaviour      *)
(* (pc = "error").  FairSpec is Spec in which the interpreter always       *)
(* executes the next statement.                                            *)
(*                                                                         *)
(* MainSpec: Main of src/src/main.py builds the tokenizer and the Indexer  *)
(* in __init__, reads the command line, indexes the data source and        *)
(* answers queries through Query of src/src/query.py.                      *)
(***************************************************************************)
EXTENDS Integers, Sequences, FiniteSets, TLC

\* ---------------------------------------------------------------- bounds
NumTerms == 3
MaxDocs == 3
MaxThreshold == 3
MaxRuns == 2

Terms == 1..NumTerms

\* a threshold no corpus of the model exceeds: one temporary block only
BigThreshold == MaxDocs * NumTerms

\* thresholds Indexer.__init__ accepts although no block can respect them
InvalidThresholds == {-1, 0}

Thresholds == (1..MaxThreshold) \cup {BigThreshold} \cup InvalidThresholds

\* value of the local variable `term` of merge_index_blocks before its
\* first assignment (reading it raises UnboundLocalError)
Unbound == 0

\* ---------------------------------------------------------------- helpers
RECURSIVE SortedSeq(_)
SortedSeq(S) ==
    IF S = {} THEN <<>>
    ELSE LET m == CHOOSE x \in S : \A y \in S : x <= y
         IN  <<m>> \o SortedSeq(S \ {m})

RECURSIVE SumSeq(_)
SumSeq(s) == IF s = <<>> THEN 0 ELSE Head(s) + SumSeq(Tail(s))

Posting(d, p) == [doc |-> d, pos |-> p]

\* a dict keyed by document id, kept in insertion order: d[k] = v
DictSet(postings, d, p) ==
    IF \E i \in 1..Len(postings) : postings[i].doc = d
    THEN [i \in 1..Len(postings) |->
             IF postings[i].doc = d THEN Posting(d, p) ELSE postings[i]]
    ELSE Append(postings, Posting(d, p))

\* a dict keyed by term, kept in insertion order: d[term] = value
TermDictSet(entries, t, v) ==
    IF \E i \in 1..Len(entries) : entries[i].term = t
    THEN [i \in 1..Len(entries) |->
             IF entries[i].term = t THEN [term |-> t, value |-> v]
             ELSE entries[i]]
    ELSE Append(entries, [term |-> t, value |-> v])

\* ---------------------------------------------------------------- source
\* word lists of the documents of the data source: no word, one word twice,
\* the first and the last term, all terms but the last, all but the first,
\* all
Bodies ==
    { <<>>, <<1, 1>>, <<1, NumTerms>>,
      [i \in 1..(NumTerms - 1) |-> i],
      [i \in 1..(NumTerms - 1) |-> i + 1],
      [i \in 1..NumTerms |-> i] }

\* review id (natural key) of the i-th row of the data source
ReviewId(i) == 100 - i

SourceFiles ==
    UNION { [1..n -> Bodies] : n \in 0..MaxDocs }

\* ---------------------------------------------------------------- state
VARIABLES
    source,                       \* bodies of the rows of the data source
    use_positions,                \* tokenizer.use_positions
    stopwords,                    \* tokenizer.stopwords
    size_filter,                  \* tokenizer.size_filter
    max_postings_per_temp_block,
    pc,                           \* position in index_data_source
    exception,                    \* the exception that ended the run, if any
    run,                          \* calls of index_data_source so far
    data_reader,                  \* rows of the source consumed by the for loop
    block_posting_count,
    inverted_index,               \* term -> postings (a defaultdict: a key
                                  \* exists exactly when its value is not empty)
    master_index,                 \* term -> <<doc freq, block>>, default <<0, 0>>
    doc_keys,                     \* dict surrogate -> natural, insertion order
    nr_postings,
    nr_indexed_docs,
    vocabulary_size,
    nr_temp_index_segments,
    temp_files,                   \* TempBlock<k>.tsv
    final_files,                  \* PostingIndexBlock<k>.tsv
    master_index_file,            \* MasterIndex.tsv
    doc_keys_file,                \* DocKeys.tsv
    file_readers,                 \* rows consumed of each temporary block
    temp_merge_dict,              \* block -> dict term -> value, insertion order
    last_term_list,
    term,                         \* the local `term` of merge_index_blocks
    last_term_to_merge,
    nr_postings_read,             \* per block, in the current round
    max_postings_read_per_block,
    nr_final_index_blocks,
    nr_merged_postings,
    prev_output,                  \* output files of the previous run (history)
    args_max_post,                \* --max_post of the command line, 0 without
    max_post,                     \* Main.max_post
    query_stopwords,              \* Query.tokenize.stopwords
    query_size_filter,            \* Query.tokenize.size_filter
    query_master_index,           \* Query.master_index
    word_to_search,               \* the search term read by main, 0 before
    query_output                  \* what process_query printed for it

config == <<source, use_positions, stopwords, size_filter,
            max_postings_per_temp_block>>
stats == <<nr_postings, nr_indexed_docs, vocabulary_size, nr_temp_index_segments>>
memory == <<block_posting_count, inverted_index, master_index, doc_keys>>
disk == <<temp_files, final_files, master_index_file, doc_keys_file>>
merge_locals == <<file_readers, temp_merge_dict, last_term_list, term,
                  last_term_to_merge, nr_postings_read,
                  max_postings_read_per_block, nr_final_index_blocks,
                  nr_merged_postings>>
main_fields == <<args_max_post, max_post>>
query == <<query_stopwords, query_size_filter, query_master_index,
           word_to_search, query_output>>
vars == <<config, pc, exception, run, data_reader, stats, memory, disk,
          merge_locals, prev_output, main_fields, query>>

\* ---------------------------------------------------------------- tokenizer
\* len(word): the word of rank w has w + 2 letters
WordLength(w) == w + 2

\* the words of content/stopwords.txt: the last word of the model
StopwordsFile == {NumTerms}

\* the loop of stem_and_filter_words for a tokenizer with the given stopwords
\* and size filter; the words of the model are their own stems
FilterWords(stop, size, word_list) ==
    { word_list[i] :
        i \in { j \in 1..Len(word_list) :
                  /\ word_list[j] \notin stop
                  /\ WordLength(word_list[j]) > size } }

stem_and_filter_words(word_list) ==
    FilterWords(stopwords, size_filter, word_list)

RECURSIVE PositionsFrom(_, _, _)
PositionsFrom(word_list, w, i) ==
    IF i > Len(word_list) THEN <<>>
    ELSE (IF word_list[i] = w THEN <<i - 1>> ELSE <<>>)
         \o PositionsFrom(word_list, w, i + 1)

stem_and_filter_words_with_positions(word_list) ==
    [w \in stem_and_filter_words(word_list) |-> PositionsFrom(word_list, w, 1)]

\* ---------------------------------------------------------------- indexer
EmptyIndex == [t \in Terms |-> <<>>]

EmptyMasterIndex == [t \in Terms |-> <<0, 0>>]

Keys(index) == { t \in Terms : index[t] # <<>> }

MasterKeys(mi) == { t \in Terms : mi[t] # <<0, 0>> }

\* PostingCount(index): postings held by an in-memory index
RECURSIVE CountOver(_, _)
CountOver(index, S) ==
    IF S = {} THEN 0
    ELSE LET t == CHOOSE x \in S : TRUE
         IN  Len(index[t]) + CountOver(index, S \ {t})

PostingCount(index) == CountOver(index, Terms)

tokenize(doc_body) ==
    IF use_positions THEN stem_and_filter_words_with_positions(doc_body)
    ELSE stem_and_filter_words(doc_body)

Tokens(doc_body) ==
    IF use_positions THEN DOMAIN tokenize(doc_body) ELSE tokenize(doc_body)

\* faulty variant of NrTokens: every word of the document is counted
NrWords(doc_body) == Len(doc_body)

\* len(tokens)
NrTokens(doc_body) == Cardinality(Tokens(doc_body))

index_doc(index, doc_id, doc_body) ==
    [t \in Terms |->
        IF t \in Tokens(doc_body)
        THEN IF use_positions
             THEN DictSet(index[t], doc_id, tokenize(doc_body)[t])
             ELSE Append(index[t], Posting(doc_id, <<>>))
        ELSE index[t]]

\* self.doc_keys[k] = v
DocKeysSet(dk, k, v) ==
    IF \E i \in 1..Len(dk) : dk[i].key = k
    THEN [i \in 1..Len(dk) |->
             IF dk[i].key = k THEN [key |-> k, value |-> v] ELSE dk[i]]
    ELSE Append(dk, [key |-> k, value |-> v])

\* row i of the data source: doc[2] is the review id, the body is made of
\* doc[5], doc[12] and doc[13]
SourceRow(i) == [review_id |-> ReviewId(i), body |-> source[i]]

\* faulty variant of parse_doc_from_data_source: the key is registered
\* before the counter is incremented
parse_doc_register_first(dk, indexed, doc) ==
    [nr_indexed_docs |-> indexed + 1,
     doc_keys        |-> DocKeysSet(dk, indexed, doc.review_id),
     doc_id          |-> indexed + 1,
     doc_body        |-> doc.body]

parse_doc_from_data_source(dk, indexed, doc) ==
    [nr_indexed_docs |-> indexed + 1,
     doc_keys        |-> DocKeysSet(dk, indexed + 1, doc.review_id),
     doc_id          |-> indexed + 1,
     doc_body        |-> doc.body]

\* text of one posting of a row
FormatPosting(posting) ==
    IF use_positions THEN <<posting.doc>> \o posting.pos
    ELSE <<posting.doc>>

parse_index_term_for_dumping(index, t) ==
    [term   |-> t,
     fields |-> [i \in 1..Len(index[t]) |-> FormatPosting(index[t][i])]]

\* faulty variant of dump_index_to_disk: the rows are written in the reverse
\* of the sorted order
dump_index_unsorted(index) ==
    LET ordered_terms == SortedSeq(Keys(index))
        n == Len(ordered_terms)
    IN  [i \in 1..n |->
            parse_index_term_for_dumping(index, ordered_terms[n + 1 - i])]

\* the rows dump_index_to_disk writes
dump_index_to_disk(index) ==
    LET ordered_terms == SortedSeq(Keys(index))
    IN  [i \in 1..Len(ordered_terms) |->
            parse_index_term_for_dumping(index, ordered_terms[i])]

RECURSIVE ParseFields(_, _)
ParseFields(fields, value) ==
    IF fields = <<>> THEN value
    ELSE CHOOSE out \in
             { ParseFields(rest, next) :
                 rest \in { Tail(fields) },
                 next \in { IF use_positions
                            THEN DictSet(value, f[1], Tail(f))
                            ELSE Append(value, Posting(f[1], <<>>)) :
                            f \in { Head(fields) } } } : TRUE

parse_index_file_row(row) ==
    [term |-> row.term, value |-> ParseFields(row.fields, <<>>)]

\* open(file_path, mode='wt') of block file k and write its rows
WriteFile(files, k, rows) ==
    [i \in 1..(IF k > Len(files) THEN k ELSE Len(files)) |->
        IF i = k THEN rows ELSE files[i]]

\* int((max_postings_per_temp_block / nr_temp_index_segments) * 0.7): int()
\* truncates towards zero
ReadBudget(max, n) ==
    IF max >= 0 THEN (7 * max) \div (10 * n)
    ELSE 0 - ((7 * (0 - max)) \div (10 * n))

\* ---------------------------------------------------------------- merge
\* In the operators below a value that is used several times is bound as
\* the element of a one-element set (x \in {e}) in place of LET x == e: the
\* meaning is the same and the value is computed once.

\* the inner while loop of the read phase, for one temporary block
RECURSIVE ReadRows(_, _)
ReadRows(st, budget) ==
    IF st.nread < budget /\ st.pos < Len(st.rows)
    THEN CHOOSE out \in
             { ReadRows(next, budget) :
                 next \in
                   { [rows   |-> st.rows,
                      pos    |-> st.pos + 1,
                      staged |-> TermDictSet(st.staged, parsed.term,
                                             parsed.value),
                      nread  |-> st.nread + Len(parsed.value),
                      term   |-> parsed.term] :
                     parsed \in
                       {parse_index_file_row(st.rows[st.pos + 1])} } } : TRUE
    ELSE st

\* the for loop of the read phase; last_term_list.append(term) raises
\* UnboundLocalError while `term` was never assigned
RECURSIVE ReadBlocks(_, _)
ReadBlocks(b, acc) ==
    IF b > nr_temp_index_segments \/ acc.error THEN acc
    ELSE CHOOSE out \in
             { ReadBlocks(b + 1, next) :
                 next \in
                   { [readers    |-> [acc.readers EXCEPT ![b] = r.pos],
                      dicts      |-> [acc.dicts EXCEPT ![b] = r.staged],
                      nread      |-> Append(acc.nread, r.nread),
                      term       |-> r.term,
                      last_terms |-> IF r.term = Unbound THEN acc.last_terms
                                     ELSE Append(acc.last_terms, r.term),
                      error      |-> r.term = Unbound] :
                     r \in { ReadRows([rows   |-> temp_files[b],
                                       pos    |-> acc.readers[b],
                                       staged |-> acc.dicts[b],
                                       nread  |-> 0,
                                       term   |-> acc.term],
                                      max_postings_read_per_block) } } } : TRUE

\* list.sort()
RECURSIVE Insert(_, _)
Insert(x, s) ==
    IF s = <<>> THEN <<x>>
    ELSE IF x <= Head(s) THEN <<x>> \o s
         ELSE <<Head(s)>> \o Insert(x, Tail(s))

RECURSIVE Sort(_)
Sort(s) == IF s = <<>> THEN <<>> ELSE Insert(Head(s), Sort(Tail(s)))

\* faulty variant of Boundary: the greatest of the last terms read
\* (last_term_list[-1])
BoundaryLast(last_terms) == Sort(last_terms)[Len(last_terms)]

\* last_term_list.sort(); last_term_to_merge = last_term_list[0]
Boundary(last_terms) == Sort(last_terms)[1]

\* faulty variant of MergeValue: the staged postings replace those already
\* merged (= for +=)
MergeValueAssign(postings, value) == value

\* faulty variant of MergeValue: the staged postings go in front of those
\* already merged
MergeValuePrepend(postings, value) == value \o postings

\* the postings of one staged term go into the final index in memory
RECURSIVE MergeValue(_, _)
MergeValue(postings, value) ==
    IF use_positions
    THEN IF value = <<>> THEN postings
         ELSE CHOOSE out \in
                  { MergeValue(updated, rest) :
                      updated \in { DictSet(postings, Head(value).doc,
                                            Head(value).pos) },
                      rest \in { Tail(value) } } : TRUE
    ELSE postings \o value

\* faulty variant of RecordMaster: the block number is recorded as if the
\* dump had already happened
RecordMasterNextBlock(entry, nr_postings_for_term, block) ==
    <<entry[1] + nr_postings_for_term, block + 1>>

\* master_index[term][0] += nr_postings_for_term; master_index[term][1] = block
RecordMaster(entry, nr_postings_for_term, block) ==
    <<entry[1] + nr_postings_for_term, block>>

\* faulty variant of ReadyToMerge: the boundary term itself stays staged
BelowBoundary(t, boundary) == t < boundary

\* if term <= last_term_to_merge
ReadyToMerge(t, boundary) == t <= boundary

\* for term in block_terms: merge the terms up to the boundary
RECURSIVE MergeTerms(_, _, _, _)
MergeTerms(entries, i, boundary, acc) ==
    IF i > Len(entries) THEN acc
    ELSE CHOOSE out \in
             { MergeTerms(entries, i + 1, boundary, next) :
                 next \in
                   { IF ReadyToMerge(e.term, boundary)
                     THEN [index  |-> [acc.index EXCEPT ![e.term] =
                                          MergeValue(@, e.value)],
                           master |-> [acc.master EXCEPT ![e.term] =
                                          RecordMaster(@, Len(e.value),
                                                       acc.block)],
                           count  |-> acc.count + Len(e.value),
                           merged |-> acc.merged + Len(e.value),
                           term   |-> e.term,
                           block  |-> acc.block,
                           kept   |-> acc.kept]
                     ELSE [acc EXCEPT !.term = e.term,
                                      !.kept = Append(@, e)] :
                     e \in {entries[i]} } } : TRUE

\* for block_nr in range(1, nr_temp_index_segments + 1)
RECURSIVE MergeBlocks(_, _, _)
MergeBlocks(b, boundary, acc) ==
    IF b > nr_temp_index_segments THEN acc
    ELSE CHOOSE out \in
             { MergeBlocks(b + 1, boundary, next) :
                 next \in
                   { [index  |-> m.index,
                      master |-> m.master,
                      count  |-> m.count,
                      merged |-> m.merged,
                      term   |-> m.term,
                      block  |-> acc.block,
                      dicts  |-> [acc.dicts EXCEPT ![b] = m.kept]] :
                     m \in { MergeTerms(acc.dicts[b], 1, boundary,
                                 [index  |-> acc.index,
                                  master |-> acc.master,
                                  count  |-> acc.count,
                                  merged |-> acc.merged,
                                  term   |-> acc.term,
                                  block  |-> acc.block,
                                  kept   |-> <<>>]) } } } : TRUE

\* the rows dump_master_index writes
dump_master_index(mi) ==
    LET keys == SortedSeq(MasterKeys(mi))
    IN  [i \in 1..Len(keys) |-> <<keys[i], mi[keys[i]][1], mi[keys[i]][2]>>]

\* the rows dump_doc_keys writes
dump_doc_keys(dk) ==
    [i \in 1..Len(dk) |-> <<dk[i].key, dk[i].value>>]

Output ==
    [valid  |-> TRUE,
     final  |-> final_files,
     master |-> master_index_file,
     keys   |-> doc_keys_file]

NoOutput == [valid |-> FALSE, final |-> <<>>, master |-> <<>>, keys |-> <<>>]

\* faulty variant of ExceedsThreshold: a block that has just reached the
\* threshold counts as full
ReachesThreshold(count, max) == count >= max

\* if self.block_posting_count > self.max_postings_per_temp_block
ExceedsThreshold(count, max) == count > max

\* faulty variant of FinalBlockFull: a final index that has just reached the
\* threshold stays in memory
FinalBlockOverfull(count, max) == count > max

\* if self.block_posting_count >= self.max_postings_per_temp_block
FinalBlockFull(count, max) == count >= max

\* ---------------------------------------------------------------- actions
\* Query.master_index before read_master_index: a defaultdict without keys
EmptyQueryIndex ==
    [t \in Terms |-> [found |-> FALSE, doc_freq |-> 0, file_path |-> 0]]

\* no Query object yet
NoQuery ==
    /\ query_stopwords = {}
    /\ query_size_filter = 0
    /\ query_master_index = EmptyQueryIndex
    /\ word_to_search = 0
    /\ query_output = {}

\* the fields Indexer.__init__ sets, before any run
IndexerInit ==
    /\ exception = "none"
    /\ run = 0
    /\ data_reader = 0
    /\ block_posting_count = 0
    /\ inverted_index = EmptyIndex
    /\ master_index = EmptyMasterIndex
    /\ doc_keys = <<>>
    /\ nr_postings = 0
    /\ nr_indexed_docs = 0
    /\ vocabulary_size = 0
    /\ nr_temp_index_segments = 0
    /\ temp_files = <<>>
    /\ final_files = <<>>
    /\ master_index_file = <<>>
    /\ doc_keys_file = <<>>
    /\ file_readers = <<>>
    /\ temp_merge_dict = <<>>
    /\ last_term_list = <<>>
    /\ term = Unbound
    /\ last_term_to_merge = Unbound
    /\ nr_postings_read = <<>>
    /\ max_postings_read_per_block = 0
    /\ nr_final_index_blocks = 0
    /\ nr_merged_postings = 0
    /\ prev_output = NoOutput

\* an Indexer on a tokenizer without stopwords or size filter and on any
\* threshold, as indexer.test.py builds it; no Main, no Query
Init ==
    /\ source \in SourceFiles
    /\ use_positions \in BOOLEAN
    /\ stopwords = {}
    /\ size_filter = 0
    /\ max_postings_per_temp_block \in Thresholds
    /\ args_max_post = 0
    /\ max_post = max_postings_per_temp_block
    /\ pc = "idle"
    /\ IndexerInit
    /\ NoQuery

\* index_data_source is called: initialize_statistics, the source is opened
StartRun ==
    /\ pc \in {"idle", "done"}
    /\ run < MaxRuns
    /\ run' = run + 1
    /\ pc' = "reading"
    /\ data_reader' = 0
    /\ nr_postings' = 0
    /\ nr_indexed_docs' = 0
    /\ vocabulary_size' = 0
    /\ nr_temp_index_segments' = 0
    /\ prev_output' = IF pc = "done" THEN Output ELSE prev_output
    /\ UNCHANGED <<config, main_fields, query, exception, memory, disk, merge_locals>>

\* one iteration of `for doc in data_reader`
IndexNextDoc ==
    /\ pc = "reading"
    /\ data_reader < Len(source)
    /\ LET flush  == ExceedsThreshold(block_posting_count,
                                       max_postings_per_temp_block)
           segs   == IF flush THEN nr_temp_index_segments + 1
                     ELSE nr_temp_index_segments
           index0 == IF flush THEN EmptyIndex ELSE inverted_index
           count0 == IF flush THEN 0 ELSE block_posting_count
           parsed == parse_doc_from_data_source(doc_keys, nr_indexed_docs,
                                                SourceRow(data_reader + 1))
           nr_tokens == NrTokens(parsed.doc_body)
       IN  /\ nr_temp_index_segments' = segs
           /\ temp_files' = IF flush
                            THEN WriteFile(temp_files, segs,
                                           dump_index_to_disk(inverted_index))
                            ELSE temp_files
           /\ nr_indexed_docs' = parsed.nr_indexed_docs
           /\ doc_keys' = parsed.doc_keys
           /\ nr_postings' = nr_postings + nr_tokens
           /\ block_posting_count' = count0 + nr_tokens
           /\ inverted_index' = index_doc(index0, parsed.doc_id,
                                          parsed.doc_body)
    /\ data_reader' = data_reader + 1
    /\ UNCHANGED <<config, main_fields, query, exception, pc, run, vocabulary_size, master_index,
                   final_files, master_index_file, doc_keys_file,
                   merge_locals, prev_output>>

\* the source is exhausted: last temporary block, then merge_index_blocks
\* up to its while loop (the division raises ZeroDivisionError without a
\* temporary block)
EndOfSource ==
    /\ pc = "reading"
    /\ data_reader = Len(source)
    /\ LET flush == Keys(inverted_index) # {}
           segs  == IF flush THEN nr_temp_index_segments + 1
                    ELSE nr_temp_index_segments
           count0 == IF flush THEN 0 ELSE block_posting_count
       IN  /\ nr_temp_index_segments' = segs
           /\ temp_files' = IF flush
                            THEN WriteFile(temp_files, segs,
                                           dump_index_to_disk(inverted_index))
                            ELSE temp_files
           /\ inverted_index' = IF flush THEN EmptyIndex ELSE inverted_index
           /\ file_readers' = [b \in 1..segs |-> 0]
           /\ temp_merge_dict' = [b \in 1..segs |-> <<>>]
           /\ last_term_list' = <<>>
           /\ term' = Unbound
           /\ last_term_to_merge' = Unbound
           /\ nr_postings_read' = <<>>
           /\ nr_merged_postings' = 0
           /\ IF segs = 0
              THEN /\ pc' = "error"
                   /\ exception' = "ZeroDivisionError"
                   /\ block_posting_count' = count0
                   /\ max_postings_read_per_block' = 0
                   /\ nr_final_index_blocks' = 0
              ELSE /\ pc' = "merge"
                   /\ exception' = exception
                   /\ block_posting_count' = 0
                   /\ max_postings_read_per_block' =
                          ReadBudget(max_postings_per_temp_block, segs)
                   /\ nr_final_index_blocks' = 1
    /\ UNCHANGED <<config, main_fields, query, run, data_reader, nr_postings, nr_indexed_docs,
                   vocabulary_size, master_index, doc_keys, final_files,
                   master_index_file, doc_keys_file, prev_output>>

\* read phase of one round of the while loop, up to last_term_to_merge
ReadRound ==
    /\ pc = "merge"
    /\ nr_merged_postings < nr_postings
    /\ \E r \in { ReadBlocks(1, [readers    |-> file_readers,
                                  dicts      |-> temp_merge_dict,
                                  nread      |-> <<>>,
                                  term       |-> term,
                                  last_terms |-> <<>>,
                                  error      |-> FALSE]) } :
           /\ file_readers' = r.readers
           /\ temp_merge_dict' = r.dicts
           /\ nr_postings_read' = r.nread
           /\ term' = r.term
           /\ IF r.error
              THEN /\ pc' = "error"
                   /\ exception' = "UnboundLocalError"
                   /\ last_term_list' = r.last_terms
                   /\ last_term_to_merge' = last_term_to_merge
              ELSE /\ pc' = "staged"
                   /\ exception' = exception
                   /\ last_term_list' = Sort(r.last_terms)
                   /\ last_term_to_merge' = Boundary(r.last_terms)
    /\ UNCHANGED <<config, main_fields, query, run, data_reader, stats, memory, disk,
                   max_postings_read_per_block, nr_final_index_blocks,
                   nr_merged_postings, prev_output>>

\* merge phase of the round: the staged terms up to last_term_to_merge go
\* into the final index in memory
MergeRound ==
    /\ pc = "staged"
    /\ \E m \in { MergeBlocks(1, last_term_to_merge,
                      [index  |-> inverted_index,
                       master |-> master_index,
                       count  |-> block_posting_count,
                       merged |-> nr_merged_postings,
                       term   |-> term,
                       block  |-> nr_final_index_blocks,
                       dicts  |-> temp_merge_dict]) } :
           /\ temp_merge_dict' = m.dicts
           /\ term' = m.term
           /\ master_index' = m.master
           /\ nr_merged_postings' = m.merged
           /\ inverted_index' = m.index
           /\ block_posting_count' = m.count
    /\ pc' = "merged"
    /\ UNCHANGED <<config, main_fields, query, exception, run, data_reader, stats, doc_keys, disk,
                   file_readers, last_term_list, last_term_to_merge,
                   nr_postings_read, max_postings_read_per_block,
                   nr_final_index_blocks, prev_output>>

\* end of the round: a final index in memory that has reached the threshold
\* is dumped as the next final block
DumpFullBlock ==
    /\ pc = "merged"
    /\ LET flush == FinalBlockFull(block_posting_count,
                                   max_postings_per_temp_block)
       IN  /\ final_files' = IF flush
                             THEN WriteFile(final_files, nr_final_index_blocks,
                                       dump_index_to_disk(inverted_index))
                             ELSE final_files
           /\ inverted_index' = IF flush THEN EmptyIndex ELSE inverted_index
           /\ block_posting_count' = IF flush THEN 0 ELSE block_posting_count
           /\ nr_final_index_blocks' = IF flush THEN nr_final_index_blocks + 1
                                       ELSE nr_final_index_blocks
    /\ pc' = "merge"
    /\ UNCHANGED <<config, main_fields, query, exception, run, data_reader, stats, master_index, doc_keys,
                   temp_files, master_index_file, doc_keys_file, file_readers,
                   temp_merge_dict, last_term_list, term, last_term_to_merge,
                   nr_postings_read, max_postings_read_per_block,
                   nr_merged_postings, prev_output>>

\* the while loop ends: the last final block is dumped
FinishMerge ==
    /\ pc = "merge"
    /\ nr_merged_postings >= nr_postings
    /\ LET flush == Keys(inverted_index) # {}
       IN  /\ final_files' = IF flush
                             THEN WriteFile(final_files, nr_final_index_blocks,
                                            dump_index_to_disk(inverted_index))
                             ELSE final_files
           /\ inverted_index' = IF flush THEN EmptyIndex ELSE inverted_index
           /\ block_posting_count' = IF flush THEN 0 ELSE block_posting_count
    /\ pc' = "dump"
    /\ UNCHANGED <<config, main_fields, query, exception, run, data_reader, stats, master_index, doc_keys,
                   temp_files, master_index_file, doc_keys_file, merge_locals,
                   prev_output>>

\* dump_master_index, dump_doc_keys and the closing statistics
DumpOutputs ==
    /\ pc = "dump"
    /\ master_index_file' = dump_master_index(master_index)
    /\ doc_keys_file' = dump_doc_keys(doc_keys)
    /\ vocabulary_size' = Len(doc_keys)
    /\ pc' = "done"
    /\ UNCHANGED <<config, main_fields, query, exception, run, data_reader, nr_postings, nr_indexed_docs,
                   nr_temp_index_segments, memory, temp_files, final_files,
                   merge_locals, prev_output>>

Next ==
    \/ StartRun
    \/ IndexNextDoc
    \/ EndOfSource
    \/ ReadRound
    \/ MergeRound
    \/ DumpFullBlock
    \/ FinishMerge
    \/ DumpOutputs

Spec == Init /\ [][Next]_vars

\* index_data_source runs to its end or to an exception: a Python statement
\* that can execute does execute
FairSpec == Spec /\ WF_vars(Next)

\* ---------------------------------------------------------------- main
DefaultMaxPost == 1000000

DefaultWordSize == 3

\* values of --max_post; 0 stands for a command line without it
MaxPostArgs == 0..MaxThreshold

\* Main.__init__: the defaults, and the Tokenizer and the Indexer built on them
MainInit ==
    /\ source \in SourceFiles
    /\ args_max_post \in MaxPostArgs
    /\ max_post = DefaultMaxPost
    /\ use_positions = FALSE
    /\ stopwords = StopwordsFile
    /\ size_filter = DefaultWordSize
    /\ max_postings_per_temp_block = DefaultMaxPost
    /\ pc = "args"
    /\ IndexerInit
    /\ NoQuery

\* if args.max_post: self.max_post = args.max_post
check_arguments ==
    /\ pc = "args"
    /\ max_post' = IF args_max_post # 0 THEN args_max_post ELSE max_post
    /\ pc' = "idle"
    /\ UNCHANGED <<config, args_max_post, exception, run, data_reader, stats,
                   memory, disk, merge_locals, prev_output, query>>

\* self.indexer.index_data_source(data_source_path = self.data_path)
MainIndex ==
    /\ pc = "idle"
    /\ StartRun

\* the rows of MasterIndex.tsv as Query.master_index
read_master_index(rows) ==
    [t \in Terms |->
        IF \E i \in 1..Len(rows) : rows[i][1] = t
        THEN LET i == CHOOSE k \in 1..Len(rows) :
                          /\ rows[k][1] = t
                          /\ \A l \in 1..Len(rows) : rows[l][1] = t => l <= k
             IN  [found |-> TRUE, doc_freq |-> rows[i][2],
                  file_path |-> rows[i][3]]
        ELSE EmptyQueryIndex[t]]

\* Query(...) with the fields of Main, then query.read_master_index()
NewQuery ==
    /\ pc = "done"
    /\ query_stopwords' = {}
    /\ query_size_filter' = 0
    /\ query_master_index' = read_master_index(master_index_file)
    /\ pc' = "query"
    /\ UNCHANGED <<config, main_fields, exception, run, data_reader, stats,
                   memory, disk, merge_locals, prev_output, word_to_search,
                   query_output>>

\* what process_query prints for a search term: one entry per normalized
\* word, with the master index entry of the word or "Not found"
process_query(stop, size, mi, w) ==
    { [normalized |-> t, found |-> mi[t].found, doc_freq |-> mi[t].doc_freq,
       file_path |-> mi[t].file_path] : t \in FilterWords(stop, size, <<w>>) }

\* word_to_search = input(); query.process_query(word_to_search)
ProcessQuery ==
    /\ pc = "query"
    /\ \E w \in Terms :
           /\ word_to_search' = w
           /\ query_output' = process_query(query_stopwords, query_size_filter,
                                            query_master_index, w)
    /\ UNCHANGED <<config, main_fields, pc, exception, run, data_reader, stats,
                   memory, disk, merge_locals, prev_output, query_stopwords,
                   query_size_filter, query_master_index>>

MainNext ==
    \/ check_arguments
    \/ MainIndex
    \/ IndexNextDoc
    \/ EndOfSource
    \/ ReadRound
    \/ MergeRound
    \/ DumpFullBlock
    \/ FinishMerge
    \/ DumpOutputs
    \/ NewQuery
    \/ ProcessQuery

MainSpec == MainInit /\ [][MainNext]_vars

\* ---------------------------------------------------------------- properties
FilePostingCount(file) ==
    SumSeq([i \in 1..Len(file) |-> Len(file[i].fields)])

FinalPostingCount ==
    SumSeq([k \in 1..Len(final_files) |-> FilePostingCount(final_files[k])])

\* terms of the rows of a block file, in file order
FileTerms(file) == [i \in 1..Len(file) |-> file[i].term]

\* numbers of the final block files that hold a row of term t
BlocksOf(t) ==
    { k \in 1..Len(final_files) :
        \E i \in 1..Len(final_files[k]) : final_files[k][i].term = t }

\* terms of the corpus
Vocabulary ==
    UNION { stem_and_filter_words(source[i]) : i \in 1..Len(source) }

\* C1: once index_data_source has finished, the posting counts of all
\* PostingIndexBlock files add up to nr_postings, the count accumulated by
\* index_doc
C1_Conservation ==
    pc \in {"dump", "done"} => FinalPostingCount = nr_postings

C1_Witness ==
    /\ pc = "done"
    /\ nr_temp_index_segments >= 2
    /\ Len(final_files) >= 2
    /\ FinalPostingCount >= 5

\* C3: every row of a final block file belongs to a term whose master index
\* entry names that file, no term has rows in two files or two rows in one
\* file, and after the run every term of the master index is in the file its
\* entry (in memory and in MasterIndex.tsv) names
C3_MasterBlockConsistency ==
    /\ \A k \in 1..Len(final_files) : \A i \in 1..Len(final_files[k]) :
           master_index[final_files[k][i].term][2] = k
    /\ \A k \in 1..Len(final_files) : \A i, j \in 1..Len(final_files[k]) :
           final_files[k][i].term = final_files[k][j].term => i = j
    /\ pc \in {"dump", "done"} =>
           /\ MasterKeys(master_index) = Vocabulary
           /\ \A t \in Vocabulary : BlocksOf(t) = {master_index[t][2]}
    /\ pc = "done" =>
           \A i \in 1..Len(master_index_file) :
               BlocksOf(master_index_file[i][1]) = {master_index_file[i][3]}

C3_Witness ==
    /\ pc = "done"
    /\ Len(final_files) >= 2
    /\ nr_temp_index_segments >= 2
    /\ \E t \in Vocabulary : master_index[t][2] = 2
    /\ \E k \in 1..Len(final_files) : Len(final_files[k]) >= 2

StrictlyAscending(s) == \A i, j \in 1..Len(s) : i < j => s[i] < s[j]

RECURSIVE Concat(_)
Concat(ss) == IF ss = <<>> THEN <<>> ELSE Head(ss) \o Concat(Tail(ss))

\* terms of all final block files, in block-number order
FinalTerms == Concat([k \in 1..Len(final_files) |-> FileTerms(final_files[k])])

\* terms the running merge has merged so far: those of the final blocks it
\* has dumped and those of the final index in memory
MergedTerms ==
    Keys(inverted_index) \cup
    { t \in Terms : \E k \in BlocksOf(t) : k < nr_final_index_blocks }

\* terms staged in the dict of temporary block b
StagedTerms(b) == { temp_merge_dict[b][i].term : i \in 1..Len(temp_merge_dict[b]) }

\* terms of the rows of temporary block b the reader has not reached
UnreadTerms(b) ==
    { temp_files[b][i].term : i \in (file_readers[b] + 1)..Len(temp_files[b]) }

Blocks == 1..nr_temp_index_segments

\* C4: the terms of each final block are strictly ascending and every term
\* of block k is below every term of block k+1; while the merge runs, every
\* term still staged or unread (to be merged in a later round) is above
\* every term merged so far; after the run the final blocks in block-number
\* order are the whole vocabulary in strictly ascending order
C4_FinalBlockOrder ==
    /\ StrictlyAscending(FinalTerms)
    /\ pc \in {"merge", "staged", "merged"} =>
           \A b \in Blocks : \A t \in StagedTerms(b) \cup UnreadTerms(b) :
               \A u \in MergedTerms : u < t
    /\ pc \in {"dump", "done"} => FinalTerms = SortedSeq(Vocabulary)

C4_Witness ==
    /\ pc = "done"
    /\ nr_temp_index_segments >= 2
    /\ Len(final_files) >= 2
    /\ Len(FinalTerms) = NumTerms
    /\ \E k \in 1..Len(final_files) : Len(final_files[k]) >= 2

\* C5: once a round has fixed last_term_to_merge, no temporary block holds
\* an unread row of a term at or below it, a term at or below it that is
\* staged for some block is staged for every block whose file has it, and
\* after the merge phase no staging dict holds a term at or below it
C5_MergeBoundarySafety ==
    /\ (pc \in {"merge", "staged", "merged"} /\ last_term_to_merge # Unbound) =>
           \A b \in Blocks : \A t \in UnreadTerms(b) : t > last_term_to_merge
    /\ pc = "staged" =>
           \A b, c \in Blocks : \A t \in StagedTerms(b) :
               (t <= last_term_to_merge
                /\ \E i \in 1..Len(temp_files[c]) : temp_files[c][i].term = t)
               => t \in StagedTerms(c)
    /\ (pc \in {"merge", "merged"} /\ last_term_to_merge # Unbound) =>
           \A b \in Blocks : \A t \in StagedTerms(b) : t > last_term_to_merge

\* a round with two blocks whose last terms read differ, and a term at the
\* boundary staged for both
C5_Witness ==
    /\ pc = "staged"
    /\ nr_temp_index_segments >= 2
    /\ \E b, c \in Blocks :
           /\ b # c
           /\ \E d \in Blocks : UnreadTerms(d) # {}
           /\ last_term_to_merge \in StagedTerms(b) \cap StagedTerms(c)
           /\ \E t \in StagedTerms(c) : t > last_term_to_merge

\* the index a single block holds: index_doc over the whole source, with the
\* surrogate ids in reading order and no dump in between
RECURSIVE IndexAll(_, _, _)
IndexAll(src, i, index) ==
    IF i > Len(src) THEN index
    ELSE IndexAll(src, i + 1, index_doc(index, i, src[i]))

\* term -> fields of the rows of a sequence of block files
RECURSIVE FieldsOf(_, _)
FieldsOf(rows, t) ==
    IF rows = <<>> THEN <<>>
    ELSE (IF Head(rows).term = t THEN Head(rows).fields ELSE <<>>)
         \o FieldsOf(Tail(rows), t)

PostingsMap(files) == [t \in Terms |-> FieldsOf(Concat(files), t)]

SingleBlockMap ==
    PostingsMap(<<dump_index_to_disk(IndexAll(source, 1, EmptyIndex))>>)

\* C2: a first run on a corpus with at least one posting, whatever the
\* threshold (down to 1), ends, and ends with the term -> postings map and
\* the document frequencies of the single-block run
C2_ThresholdInvariance ==
    (run = 1 /\ pc \in {"done", "error"} /\ nr_postings > 0
     /\ max_postings_per_temp_block >= 1) =>
        /\ pc = "done"
        /\ PostingsMap(final_files) = SingleBlockMap
        /\ \A t \in Terms : master_index[t][1] = Len(SingleBlockMap[t])

\* blocks that read at least one row in the current round
ActiveBlocks == { b \in Blocks : nr_postings_read[b] > 0 }

\* the last term block b read in the current round (b is active)
Frontier(b) == temp_merge_dict[b][Len(temp_merge_dict[b])].term

\* C6: in every round, last_term_to_merge is the smallest frontier term among
\* the blocks that read at least one row in the round
C6_BoundaryIsMinFrontier ==
    (pc = "staged" /\ ActiveBlocks # {}) =>
        /\ \E b \in ActiveBlocks : Frontier(b) = last_term_to_merge
        /\ \A b \in ActiveBlocks : Frontier(b) >= last_term_to_merge

\* documents of the source that contain term t
DocsWith(t) ==
    { i \in 1..Len(source) : t \in stem_and_filter_words(source[i]) }

\* C7: after index_data_source, the document frequency of every term in the
\* master index is the number of documents that contain the term
C7_DocumentFrequency ==
    /\ pc \in {"dump", "done"} =>
           \A t \in Terms : master_index[t][1] = Cardinality(DocsWith(t))
    /\ pc = "done" =>
           \A i \in 1..Len(master_index_file) :
               master_index_file[i][2] =
                   Cardinality(DocsWith(master_index_file[i][1]))

\* C8: a run of index_data_source on the input and configuration of the
\* previous run ends with the output files of the previous run
C8_Determinism ==
    (pc = "done" /\ prev_output.valid) => Output = prev_output

\* postings held by all staging dicts
StagedPostings ==
    SumSeq([b \in 1..Len(temp_merge_dict) |->
        SumSeq([i \in 1..Len(temp_merge_dict[b]) |->
            Len(temp_merge_dict[b][i].value)])])

\* what one round of reads can stage: every block stops reading at the first
\* row that brings it to the budget, and a row has one posting per document
\* at most
RoundCapacity ==
    nr_temp_index_segments
        * (max_postings_read_per_block + nr_indexed_docs - 1)

\* C9: during the merge, the staging dicts together hold no more than one
\* round of reads can stage, and the final index in memory holds no more
\* than max_postings_per_temp_block postings
C9_MemoryBound ==
    (pc \in {"merge", "staged", "merged"}
     /\ max_postings_per_temp_block >= 1) =>
        /\ StagedPostings <= RoundCapacity
        /\ PostingCount(inverted_index) <= max_postings_per_temp_block

\* C10: the surrogate ids of a run are 1, 2, ... in reading order, each is
\* registered in doc_keys with the review id of its row, and DocKeys.tsv
\* lists them in that order
C10_SurrogateIds ==
    /\ pc # "idle" => nr_indexed_docs = data_reader
    /\ \A i \in 1..nr_indexed_docs :
           doc_keys[i] = [key |-> i, value |-> ReviewId(i)]
    /\ run = 1 => Len(doc_keys) = nr_indexed_docs
    /\ \A d \in 1..Len(doc_keys) : doc_keys[d].key = d
    /\ pc = "done" =>
           doc_keys_file = [i \in 1..Len(source) |-> <<i, ReviewId(i)>>]

C10_Witness ==
    /\ pc = "done"
    /\ nr_indexed_docs >= 3
    /\ nr_temp_index_segments >= 2
    /\ Len(doc_keys_file) = nr_indexed_docs

\* postings of the first k temporary blocks
TempPostingCount(files, k) ==
    SumSeq([b \in 1..k |-> FilePostingCount(files[b])])

\* temporary blocks, among the first k, whose row of term t lists document d
TempBlocksOf(files, k, t, d) ==
    { b \in 1..k :
        \E i \in 1..Len(files[b]) :
            /\ files[b][i].term = t
            /\ \E j \in 1..Len(files[b][i].fields) :
                   files[b][i].fields[j][1] = d }

\* the file block k got holds the whole index in memory
WholeIndexWritten(file, index) ==
    /\ { file[i].term : i \in 1..Len(file) } = Keys(index)
    /\ \A i \in 1..Len(file) :
           Len(file[i].fields) = Len(index[file[i].term])
    /\ FilePostingCount(file) = PostingCount(index)

\* one iteration of the for loop over the documents
C11_DocumentStep ==
    (pc = "reading" /\ data_reader' = data_reader + 1) =>
        LET flush == block_posting_count > max_postings_per_temp_block
            doc_tokens == Cardinality(stem_and_filter_words(source[data_reader']))
        IN  IF flush
            THEN /\ nr_temp_index_segments' = nr_temp_index_segments + 1
                 /\ WholeIndexWritten(temp_files'[nr_temp_index_segments'],
                                      inverted_index)
                 /\ \A b \in 1..nr_temp_index_segments :
                        temp_files'[b] = temp_files[b]
                 /\ block_posting_count' = 0 + doc_tokens
                 /\ PostingCount(inverted_index') = doc_tokens
            ELSE /\ nr_temp_index_segments' = nr_temp_index_segments
                 /\ temp_files' = temp_files
                 /\ block_posting_count' = block_posting_count + doc_tokens

\* the source is exhausted
C11_LastFlushStep ==
    (pc = "reading" /\ pc' # "reading") =>
        /\ IF Keys(inverted_index) # {}
           THEN /\ nr_temp_index_segments' = nr_temp_index_segments + 1
                /\ WholeIndexWritten(temp_files'[nr_temp_index_segments'],
                                     inverted_index)
                /\ \A b \in 1..nr_temp_index_segments :
                       temp_files'[b] = temp_files[b]
           ELSE /\ nr_temp_index_segments' = nr_temp_index_segments
                /\ temp_files' = temp_files
        /\ Keys(inverted_index') = {}
        /\ pc' = "merge" => block_posting_count' = 0
        /\ TempPostingCount(temp_files', nr_temp_index_segments') = nr_postings
        /\ \A d \in 1..Len(source) : \A t \in Terms :
               Cardinality(TempBlocksOf(temp_files', nr_temp_index_segments',
                                        t, d))
                   = (IF t \in stem_and_filter_words(source[d]) THEN 1 ELSE 0)

\* C11: before each document a temporary block is flushed exactly when
\* block_posting_count exceeds max_postings_per_temp_block; a flush writes
\* the whole index in memory as the next temporary block, empties the index
\* and sets the count to zero; when the source is exhausted a last block is
\* written exactly when the index is not empty, so that the merge starts on
\* an empty index with every counted posting in exactly one temporary block
C11_BlockBuilderFlush ==
    [][C11_DocumentStep /\ C11_LastFlushStep]_vars

C11_Witness ==
    /\ pc = "merge"
    /\ last_term_to_merge = Unbound
    /\ nr_temp_index_segments >= 2
    /\ nr_indexed_docs >= 3
    /\ FilePostingCount(temp_files[1]) > max_postings_per_temp_block + 1
    /\ FilePostingCount(temp_files[nr_temp_index_segments])
           <= max_postings_per_temp_block

\* C12: with a threshold of zero or less no run completes or writes merged
\* output, and the exception that ends it is a ConfigurationError
C12_InvalidThresholdRejected ==
    max_postings_per_temp_block <= 0 =>
        /\ pc \notin {"dump", "done"}
        /\ pc = "error" => exception = "ConfigurationError"
        /\ final_files = <<>>
        /\ master_index_file = <<>>

\* C13: after index_data_source, the vocabulary size statistic is the number
\* of terms of the master index and the number of indexed documents is the
\* number of documents read
C13_Statistics ==
    pc = "done" =>
        /\ vocabulary_size = Cardinality(MasterKeys(master_index))
        /\ nr_indexed_docs = Len(source)

\* the half of C13 about the documents alone
C13_IndexedDocuments ==
    pc = "done" => nr_indexed_docs = Len(source)

\* what a lookup of word w reports when w is normalized by the tokenizer the
\* index was built with
IndexTimeLookup(w) ==
    process_query(stopwords, size_filter,
                  read_master_index(master_index_file), w)

\* C14: the lookup normalizes the search term with the stopwords and the size
\* filter of the tokenizer the index was built with, and reports for the
\* normalized term the document frequency and block of the master index, or
\* "Not found"
C14_LookupNormalization ==
    pc = "query" =>
        /\ query_stopwords = stopwords
        /\ query_size_filter = size_filter
        /\ word_to_search # 0 => query_output = IndexTimeLookup(word_to_search)

\* the half of C14 about the report alone: a normalized term is reported
\* with its master index row, or as not found when it has none
C14_ReportsMasterIndex ==
    (pc = "query" /\ word_to_search # 0) =>
        \A o \in query_output :
            IF \E i \in 1..Len(master_index_file) :
                   master_index_file[i][1] = o.normalized
            THEN /\ o.found
                 /\ <<o.normalized, o.doc_freq, o.file_path>>
                        \in { master_index_file[i] :
                                 i \in 1..Len(master_index_file) }
            ELSE ~o.found

\* the while loop of merge_index_blocks has ended as intended
MergeComplete ==
    /\ pc = "dump"
    /\ nr_merged_postings = nr_postings
    /\ \A b \in Blocks : temp_merge_dict[b] = <<>>

\* C15: a merge on at least one temporary block and with a read budget of
\* at least 1 leaves its loop, with nr_merged_postings = nr_postings and
\* every staging dict empty
C15_MergeTerminates ==
    (pc = "merge" /\ nr_temp_index_segments >= 1
     /\ max_postings_read_per_block >= 1) ~> MergeComplete

\* a merge of several rounds that went on after a block was exhausted with
\* terms still staged, and has ended
C15_Witness ==
    /\ MergeComplete
    /\ nr_temp_index_segments >= 2
    /\ max_postings_read_per_block >= 1
    /\ nr_final_index_blocks >= 2
    /\ \E b \in Blocks : nr_postings_read[b] = 0

\* the end of a round of the merge
C16_RoundEnd ==
    (pc = "merged" /\ pc' = "merge") =>
        IF block_posting_count >= max_postings_per_temp_block
        THEN /\ nr_final_index_blocks' = nr_final_index_blocks + 1
             /\ WholeIndexWritten(final_files'[nr_final_index_blocks],
                                  inverted_index)
             /\ \A k \in 1..Len(final_files) :
                    k # nr_final_index_blocks => final_files'[k] = final_files[k]
             /\ Keys(inverted_index') = {}
             /\ block_posting_count' = 0
        ELSE /\ nr_final_index_blocks' = nr_final_index_blocks
             /\ final_files' = final_files
             /\ inverted_index' = inverted_index
             /\ block_posting_count' = block_posting_count

\* the final index in memory after a round, and the final blocks on disk
C16_Blocks ==
    /\ (pc = "merge" /\ last_term_to_merge # Unbound) =>
           /\ block_posting_count < max_postings_per_temp_block
           /\ PostingCount(inverted_index) < max_postings_per_temp_block
    /\ (run = 1 /\ pc \in {"merge", "staged", "merged"}) =>
           Len(final_files) = nr_final_index_blocks - 1
    /\ pc \in {"dump", "done"} =>
           Len(final_files) \in
               {nr_final_index_blocks - 1, nr_final_index_blocks}
    /\ \A k \in 1..Len(final_files) :
           /\ final_files[k] # <<>>
           /\ FilePostingCount(final_files[k]) >= 1
           /\ k < Len(final_files) =>
                  FilePostingCount(final_files[k])
                      >= max_postings_per_temp_block

\* C16: at the end of each round the final index in memory is dumped exactly
\* when its count has reached max_postings_per_temp_block, so after every
\* round it holds fewer postings than that; the final blocks are numbered
\* 1, 2, ... without gaps, none is empty, and every one but the last holds
\* at least max_postings_per_temp_block postings
C16_FinalBlockFlush ==
    [][C16_RoundEnd]_vars /\ []C16_Blocks

\* a first final block dumped with exactly the threshold, a last one below it
C16_Witness ==
    /\ pc = "done"
    /\ nr_temp_index_segments >= 2
    /\ Len(final_files) >= 2
    /\ FilePostingCount(final_files[1]) = max_postings_per_temp_block
    /\ FilePostingCount(final_files[Len(final_files)])
           < max_postings_per_temp_block

\* C17: while main's call of index_data_source runs, and after it, the
\* threshold the Indexer flushes on is Main.max_post as check_arguments left
\* it, and the read budget of the merge is computed from it
C17_ConfiguredThresholdUsed ==
    pc \notin {"args", "idle"} =>
        /\ max_postings_per_temp_block = max_post
        /\ (nr_temp_index_segments >= 1
            /\ pc \in {"merge", "staged", "merged", "dump", "done", "query"})
           => max_postings_read_per_block =
                  ReadBudget(max_post, nr_temp_index_segments)

\* the half of C17 without --max_post: the default is what the Indexer uses
C17_DefaultThresholdUsed ==
    (pc \notin {"args", "idle"} /\ args_max_post = 0) =>
        max_postings_per_temp_block = max_post

\* surrogate ids of the postings of a row, in row order
RowDocs(row) == [j \in 1..Len(row.fields) |-> row.fields[j][1]]

\* C18: every row of a final block lists the surrogate ids in strictly
\* ascending order, and after the run the row of a term lists exactly the
\* documents that contain the term, each once
C18_PostingLists ==
    /\ \A k \in 1..Len(final_files) : \A i \in 1..Len(final_files[k]) :
           StrictlyAscending(RowDocs(final_files[k][i]))
    /\ pc \in {"dump", "done"} =>
           /\ \A k \in 1..Len(final_files) : \A i \in 1..Len(final_files[k]) :
                  RowDocs(final_files[k][i])
                      = SortedSeq(DocsWith(final_files[k][i].term))
           /\ \A t \in Vocabulary : BlocksOf(t) # {}

\* a positional index with a term whose postings came from two temporary
\* blocks
C18_Witness ==
    /\ pc = "done"
    /\ use_positions
    /\ nr_temp_index_segments >= 2
    /\ Len(final_files) >= 2
    /\ \E k \in 1..Len(final_files) : \E i \in 1..Len(final_files[k]) :
           /\ Len(final_files[k][i].fields) >= 3
           /\ \A b \in Blocks :
                  \E j \in 1..Len(temp_files[b]) :
                      temp_files[b][j].term = final_files[k][i].term

\* C19: a run on a source without any posting, hence without a temporary
\* block, ends without an exception, without a merge round, without a final
\* block and with an empty MasterIndex.tsv
C19_EmptySourceCompletes ==
    (run = 1 /\ nr_postings = 0 /\ nr_temp_index_segments = 0
     /\ max_postings_per_temp_block >= 1
     /\ pc \notin {"idle", "reading"}) =>
        /\ pc \in {"merge", "dump", "done"}
        /\ exception = "none"
        /\ final_files = <<>>
        /\ master_index_file = <<>>

\* C20: at every document boundary of the block building and at every
\* round boundary of the merge (and between the phases of a round),
\* block_posting_count is the number of postings the index in memory holds,
\* and it is zero exactly when that index is empty
C20_CounterInvariant ==
    pc \in {"reading", "merge", "staged", "merged", "dump", "done"} =>
        /\ block_posting_count = PostingCount(inverted_index)
        /\ block_posting_count = 0 <=> Keys(inverted_index) = {}

\* a merge in its second round or later, with postings held over from the
\* round before
C20_Witness ==
    /\ pc = "merged"
    /\ use_positions
    /\ nr_temp_index_segments >= 2
    /\ nr_final_index_blocks >= 2
    /\ block_posting_count >= 2
    /\ block_posting_count < nr_merged_postings

====
